---------------------------- MODULE Spec2Model ----------------------------
(***************************************************************************)
(* Model of lib/vector-core/src/event/metric/data.rs: the MetricData      *)
(* accumulator (time envelope, kind, value) and its operations update,    *)
(* add, subtract, zero, into_absolute, into_incremental and partial_cmp.  *)
(*                                                                         *)
(* Timestamps are instants counted in sub-millisecond ticks (chrono keeps  *)
(* nanoseconds); timestamp_millis() truncates them to milliseconds.  The   *)
(* interval arithmetic of update is unsigned arithmetic of a fixed width:  *)
(* the `as u32` cast truncates, and the `+` that follows either wraps     *)
(* (overflow checks off, the release profile) or panics (overflow checks  *)
(* on, the debug/test profile).  The width is scaled down from 32 bits to  *)
(* U32Bits bits so that the values stay inside TLC's integers.             *)
(***************************************************************************)
EXTENDS Integers, FiniteSets

\* ------------------------------------------------------------ bounds ----

\* Width, in bits, of the scaled-down u32 (32 in the source).
U32Bits == 2

\* Sub-millisecond ticks per millisecond (1000000 ns in chrono).
TicksPerMs == 2

\* Largest payload number kept in an accumulator.
MaxVal == 1

\* ------------------------------------------------------- data model ----

\* Option::None of the two optional fields of MetricTime.
None == -1

\* Number of values of the (scaled) u32: results are taken modulo this.
U32Mod == 2 ^ U32Bits

Kinds == {"Absolute", "Incremental"}

\* The payload variants the model distinguishes.
Variants == {"Counter", "Gauge"}

\* Timestamps (in ticks) and intervals (in ms) of the accumulators and
\* observations of the single-call specification: two instants inside one
\* millisecond, short gaps, and gaps of a whole u32 range and more.
OnceTimestamps ==
    {0, 1, TicksPerMs + 1, 2 * TicksPerMs, U32Mod * TicksPerMs,
     (U32Mod + 1) * TicksPerMs}

OnceIntervals == {1, 2, U32Mod - 1}

\* The same for the call sequences: fewer, so that sequences stay checkable.
SeqTimestamps == {0, TicksPerMs + 1, U32Mod * TicksPerMs}

SeqIntervals == {1, U32Mod - 1}

MetricTime(ts, ivs) == [timestamp : ts \cup {None}, interval_ms : ivs \cup {None}]

MetricValue(ns) == [variant : Variants, n : ns]

MetricData(ts, ivs, ns) ==
    [time : MetricTime(ts, ivs), kind : Kinds, value : MetricValue(ns)]

\* from_parts: the MetricData a caller constructs from the given timestamps,
\* intervals (non-zero by type) and payload numbers.
from_parts(ts, ivs, ns) == MetricData(ts, ivs, ns)

OnceAccumulators == from_parts(OnceTimestamps, OnceIntervals, 0..MaxVal)

OnceObservations == from_parts(OnceTimestamps, OnceIntervals, {1})

SeqObservations == from_parts(SeqTimestamps, SeqIntervals, {1})

\* DateTime::timestamp_millis: the instant truncated to whole milliseconds.
timestamp_millis(t) == t \div TicksPerMs

\* A NonZeroU32::new that lets zero through as a value.
NonZeroU32New_unchecked(n) == n

\* NonZeroU32::new: zero has no NonZeroU32.
NonZeroU32New(n) == IF n = 0 THEN None ELSE n

\* `x as u32` of a non-negative i64: the low bits.
AsU32(x) == x % U32Mod

\* ------------------------------------------- MetricValue capability ----

ValueAdd(v, w) ==
    IF v.variant = w.variant
    THEN [ok |-> TRUE, value |-> [v EXCEPT !.n = v.n + w.n]]
    ELSE [ok |-> FALSE, value |-> v]

ValueSubtract(v, w) ==
    IF v.variant = w.variant
    THEN [ok |-> TRUE, value |-> [v EXCEPT !.n = v.n - w.n]]
    ELSE [ok |-> FALSE, value |-> v]

ValueZero(v) == [v EXCEPT !.n = 0]

\* ------------------------------------------------------- operations ----

\* The unwrapped sum `(ta.millis - tb.millis) as u32 + i` of update, for the
\* later instant ta, the earlier instant tb and the interval i added to it.
WindowSum(ta, tb, i) == AsU32(timestamp_millis(ta) - timestamp_millis(tb)) + i

\* A reconciliation that keeps the accumulator's own timestamp when an
\* interval is missing.
ReconcileTime_keeps_own(a, b) ==
    LET t1 == a.timestamp
        i1 == a.interval_ms
        t2 == b.timestamp
        i2 == b.interval_ms
    IN  IF t1 # None /\ i1 # None /\ t2 # None /\ i2 # None
        THEN IF t1 > t2
             THEN LET s == WindowSum(t1, t2, i1)
                  IN  [overflow |-> s >= U32Mod,
                       time |-> [timestamp |-> t2,
                                 interval_ms |-> NonZeroU32New(s % U32Mod)]]
             ELSE LET s == WindowSum(t2, t1, i2)
                  IN  [overflow |-> s >= U32Mod,
                       time |-> [timestamp |-> t1,
                                 interval_ms |-> NonZeroU32New(s % U32Mod)]]
        ELSE IF t1 # None
        THEN [overflow |-> FALSE, time |-> [timestamp |-> t1, interval_ms |-> None]]
        ELSE [overflow |-> FALSE, time |-> [timestamp |-> t2, interval_ms |-> None]]

\* The match of update over (t1, i1, t2, i2): the new time envelope, and
\* whether the u32 addition overflowed on the way.
ReconcileTime(a, b) ==
    LET t1 == a.timestamp
        i1 == a.interval_ms
        t2 == b.timestamp
        i2 == b.interval_ms
    IN  IF t1 # None /\ i1 # None /\ t2 # None /\ i2 # None
        THEN IF t1 > t2
             THEN LET s == WindowSum(t1, t2, i1)
                  IN  [overflow |-> s >= U32Mod,
                       time |-> [timestamp |-> t2,
                                 interval_ms |-> NonZeroU32New(s % U32Mod)]]
             ELSE LET s == WindowSum(t2, t1, i2)
                  IN  [overflow |-> s >= U32Mod,
                       time |-> [timestamp |-> t1,
                                 interval_ms |-> NonZeroU32New(s % U32Mod)]]
        ELSE IF t1 # None /\ t2 = None
        THEN [overflow |-> FALSE, time |-> [timestamp |-> t1, interval_ms |-> None]]
        ELSE IF t1 = None /\ t2 # None
        THEN [overflow |-> FALSE, time |-> [timestamp |-> t2, interval_ms |-> None]]
        ELSE IF t1 # None /\ t2 # None
        THEN [overflow |-> FALSE,
              time |-> [timestamp |-> IF t1 >= t2 THEN t1 ELSE t2,
                        interval_ms |-> None]]
        ELSE [overflow |-> FALSE, time |-> [timestamp |-> None, interval_ms |-> None]]

\* An update that takes over the kind of the observation.
update_takes_kind(s, o, chk) ==
    LET a == ValueAdd(s.value, o.value)
        r == ReconcileTime(s.time, o.time)
    IN  IF ~a.ok
        THEN [self |-> s, ret |-> "false"]
        ELSE IF r.overflow /\ chk
        THEN [self |-> [s EXCEPT !.value = a.value], ret |-> "panic"]
        ELSE [self |-> [time |-> r.time, kind |-> o.kind, value |-> a.value],
              ret |-> "true"]

\* MetricData::update on accumulator s with observation o, built with
\* overflow checks chk: the accumulator afterwards and what the call yields
\* ("true", "false", or "panic" when the checked addition overflows after
\* value.add has already run).
update(s, o, chk) ==
    LET a == ValueAdd(s.value, o.value)
        r == ReconcileTime(s.time, o.time)
    IN  IF ~a.ok
        THEN [self |-> s, ret |-> "false"]
        ELSE IF r.overflow /\ chk
        THEN [self |-> [s EXCEPT !.value = a.value], ret |-> "panic"]
        ELSE [self |-> [time |-> r.time, kind |-> s.kind, value |-> a.value],
              ret |-> "true"]

\* An add that gates on the accumulator's own kind.
add_gates_on_self(s, o, chk) ==
    IF s.kind = "Incremental"
    THEN update(s, o, chk)
    ELSE [self |-> s, ret |-> "false"]

\* MetricData::add.
add(s, o, chk) ==
    IF o.kind = "Incremental"
    THEN update(s, o, chk)
    ELSE [self |-> s, ret |-> "false"]

\* A subtract that, like add, accepts incremental observations only.
subtract_gates_on_kind(s, o) ==
    LET d == ValueSubtract(s.value, o.value)
    IN  IF o.kind = "Incremental"
        THEN [self |-> [s EXCEPT !.value = d.value],
              ret |-> IF d.ok THEN "true" ELSE "false"]
        ELSE [self |-> s, ret |-> "false"]

\* MetricData::subtract.
subtract(s, o) ==
    LET d == ValueSubtract(s.value, o.value)
    IN  [self |-> [s EXCEPT !.value = d.value],
         ret |-> IF d.ok THEN "true" ELSE "false"]

\* MetricData::zero.
zero(s) == [s EXCEPT !.value = ValueZero(s.value)]

\* MetricData::into_absolute.
into_absolute(s) == [time |-> s.time, kind |-> "Absolute", value |-> s.value]

\* MetricData::into_incremental.
into_incremental(s) == [time |-> s.time, kind |-> "Incremental", value |-> s.value]

\* A partial_cmp under which a missing timestamp has no ordering against a
\* present one.
partial_cmp_missing_unordered(s, o) ==
    LET a == s.time.timestamp
        b == o.time.timestamp
    IN  IF a = None /\ b = None THEN "Equal"
        ELSE IF a = None \/ b = None THEN "None"
        ELSE IF a < b THEN "Less"
        ELSE IF a > b THEN "Greater"
        ELSE "Equal"

\* PartialOrd for MetricData: Option<DateTime>::partial_cmp of the two
\* timestamps (None sorts before every Some), "None" when there is no ordering.
partial_cmp(s, o) ==
    LET a == s.time.timestamp
        b == o.time.timestamp
    IN  IF a = None /\ b = None THEN "Equal"
        ELSE IF a = None THEN "Less"
        ELSE IF b = None THEN "Greater"
        ELSE IF a < b THEN "Less"
        ELSE IF a > b THEN "Greater"
        ELSE "Equal"

\* ----------------------------------------------------- state machine ----

VARIABLES
    self,             \* the accumulator
    other,            \* the observation passed to the last call
    pre,              \* the accumulator as it was before the last call
    op,               \* the last operation called
    ret,              \* what the last call returned
    aborted,          \* the last call panicked: the run is over
    overflow_checks   \* whether the build checks integer overflow

vars == <<self, other, pre, op, ret, aborted, overflow_checks>>

\* The payload numbers the model keeps: calls leading outside are not taken.
InRange(s) == s.value.n \in 0..MaxVal

Init ==
    /\ self \in SeqObservations
    /\ other = self
    /\ pre = self
    /\ op = "from_parts"
    /\ ret = "unit"
    /\ aborted = FALSE
    /\ overflow_checks \in BOOLEAN

InitOnce ==
    /\ self \in OnceAccumulators
    /\ other = self
    /\ pre = self
    /\ op = "from_parts"
    /\ ret = "unit"
    /\ aborted = FALSE
    /\ overflow_checks \in BOOLEAN

Update(o) ==
    /\ ~aborted
    /\ LET r == update(self, o, overflow_checks)
       IN  /\ InRange(r.self)
           /\ self' = r.self
           /\ ret' = r.ret
           /\ aborted' = (r.ret = "panic")
    /\ pre' = self
    /\ other' = o
    /\ op' = "update"
    /\ UNCHANGED overflow_checks

Add(o) ==
    /\ ~aborted
    /\ LET r == add(self, o, overflow_checks)
       IN  /\ InRange(r.self)
           /\ self' = r.self
           /\ ret' = r.ret
           /\ aborted' = (r.ret = "panic")
    /\ pre' = self
    /\ other' = o
    /\ op' = "add"
    /\ UNCHANGED overflow_checks

Subtract(o) ==
    /\ ~aborted
    /\ LET r == subtract(self, o)
       IN  /\ InRange(r.self)
           /\ self' = r.self
           /\ ret' = r.ret
    /\ pre' = self
    /\ other' = o
    /\ op' = "subtract"
    /\ UNCHANGED <<aborted, overflow_checks>>

Zero ==
    /\ ~aborted
    /\ self' = zero(self)
    /\ pre' = self
    /\ op' = "zero"
    /\ ret' = "unit"
    /\ UNCHANGED <<other, aborted, overflow_checks>>

IntoAbsolute ==
    /\ ~aborted
    /\ self' = into_absolute(self)
    /\ pre' = self
    /\ op' = "into_absolute"
    /\ ret' = "unit"
    /\ UNCHANGED <<other, aborted, overflow_checks>>

IntoIncremental ==
    /\ ~aborted
    /\ self' = into_incremental(self)
    /\ pre' = self
    /\ op' = "into_incremental"
    /\ ret' = "unit"
    /\ UNCHANGED <<other, aborted, overflow_checks>>

PartialCmp(o) ==
    /\ ~aborted
    /\ ret' = partial_cmp(self, o)
    /\ pre' = self
    /\ other' = o
    /\ op' = "partial_cmp"
    /\ UNCHANGED <<self, aborted, overflow_checks>>

\* Any sequence of the mutating operations on one accumulator.
Next ==
    \/ \E o \in SeqObservations : Update(o)
    \/ \E o \in SeqObservations : Add(o)
    \/ \E o \in SeqObservations : Subtract(o)
    \/ Zero
    \/ IntoAbsolute
    \/ IntoIncremental

Spec == Init /\ [][Next]_vars

\* One call of one operation on a freshly constructed accumulator.
Fresh == op = "from_parts"

UpdateOnce(o) == Fresh /\ Update(o)

AddOnce(o) == Fresh /\ Add(o)

SubtractOnce(o) == Fresh /\ Subtract(o)

PartialCmpOnce(o) == Fresh /\ PartialCmp(o)

ZeroOnce == Fresh /\ Zero

IntoAbsoluteOnce == Fresh /\ IntoAbsolute

IntoIncrementalOnce == Fresh /\ IntoIncremental

NextOnce ==
    \/ \E o \in OnceObservations : UpdateOnce(o)
    \/ \E o \in OnceObservations : AddOnce(o)
    \/ \E o \in OnceObservations : SubtractOnce(o)
    \/ \E o \in OnceObservations : PartialCmpOnce(o)
    \/ ZeroOnce
    \/ IntoAbsoluteOnce
    \/ IntoIncrementalOnce

SpecOnce == InitOnce /\ [][NextOnce]_vars

\* ------------------------------------------------------- properties ----

\* Both fields of a time envelope are present.
HasWindow(t) == t.timestamp # None /\ t.interval_ms # None

\* The last call had two operands with timestamp and interval.
BothWindows == HasWindow(pre.time) /\ HasWindow(other.time)

\* The payloads of the last call's operands are of the same variant.
Compatible == pre.value.variant = other.value.variant

Min2(x, y) == IF x <= y THEN x ELSE y

Max2(x, y) == IF x >= y THEN x ELSE y

\* Start and end, in milliseconds, of the window of a time envelope.
StartMs(t) == t.timestamp \div TicksPerMs

EndMs(t) == StartMs(t) + t.interval_ms

\* Length in milliseconds of the union of the two operands' windows.
UnionLength ==
    Max2(EndMs(pre.time), EndMs(other.time))
        - Min2(StartMs(pre.time), StartMs(other.time))

\* The length update means to store: the millisecond gap between the two
\* timestamps plus the interval of the operand with the later timestamp.
GapLength ==
    IF pre.time.timestamp > other.time.timestamp
    THEN StartMs(pre.time) - StartMs(other.time) + pre.time.interval_ms
    ELSE StartMs(other.time) - StartMs(pre.time) + other.time.interval_ms

\* C1: a successful update of two operands that both have timestamp and
\* interval, with every value inside the u32 range, stores the window union:
\* timestamp = min(t1, t2), interval_ms = max(t1+i1, t2+i2) - min(t1, t2).
C1_WindowUnion ==
    (op = "update" /\ ret = "true" /\ BothWindows /\ UnionLength < U32Mod)
        => /\ self.time.timestamp
                = Min2(pre.time.timestamp, other.time.timestamp)
           /\ self.time.interval_ms = UnionLength

\* C2: an update of two operands with timestamp and interval whose gap, or
\* gap plus interval, is outside the u32 range does not abort and stores
\* interval_ms = None, never the length modulo 2^32.
C2_OverflowClamps ==
    (op = "update" /\ BothWindows /\ Compatible /\ GapLength >= U32Mod)
        => /\ ~aborted
           /\ ret = "true"
           /\ self.time.interval_ms = None

\* C3: update returns true exactly when value.add succeeds, and when the
\* payload variants are incompatible it returns false and leaves self as it
\* was, whatever timestamps and intervals are present.
C3_UpdateReturnsAddResult ==
    op = "update"
        => /\ Compatible => ret = "true"
           /\ ~Compatible => (ret = "false" /\ self = pre /\ ~aborted)

\* C4: add with an Absolute observation returns false and leaves self as it
\* was, compatible payloads or not and whatever self.kind is; with an
\* Incremental observation it returns and does what update does.
C4_AddGatesOnOtherKind ==
    op = "add"
        => /\ other.kind = "Absolute"
                => (ret = "false" /\ self = pre /\ ~aborted)
           /\ other.kind = "Incremental"
                => [self |-> self, ret |-> ret]
                      = update(pre, other, overflow_checks)

C4_Witness ==
    /\ op = "add"
    /\ other.kind = "Absolute"
    /\ pre.kind = "Incremental"
    /\ Compatible
    /\ ret = "false"

\* C5: a successful update in which an operand lacks interval_ms stores
\* interval_ms = None and the later of the two timestamps, the only one
\* present, or None when neither is.
C5_MissingIntervalKeepsLatest ==
    (/\ op = "update"
     /\ ret = "true"
     /\ (pre.time.interval_ms = None \/ other.time.interval_ms = None))
        => /\ self.time.interval_ms = None
           /\ self.time.timestamp
                = IF pre.time.timestamp = None THEN other.time.timestamp
                  ELSE IF other.time.timestamp = None THEN pre.time.timestamp
                  ELSE Max2(pre.time.timestamp, other.time.timestamp)

C5_Witness ==
    /\ op = "update"
    /\ ret = "true"
    /\ pre.time.interval_ms # None
    /\ other.time.interval_ms = None
    /\ pre.time.timestamp # None
    /\ other.time.timestamp # None
    /\ pre.time.timestamp > other.time.timestamp
    /\ self.time.timestamp = pre.time.timestamp
    /\ self.time.interval_ms = None

\* C6 as stated: partial_cmp looks at the timestamp only, equal present
\* timestamps compare equal, and a missing timestamp has no ordering against
\* a present one.
C6_MissingIsIncomparable ==
    op = "partial_cmp"
        => LET a == pre.time.timestamp
               b == other.time.timestamp
           IN  /\ (a # None /\ a = b) => ret = "Equal"
               /\ ((a = None) # (b = None)) => ret = "None"

\* C6 as amended: partial_cmp looks at the timestamp only; present
\* timestamps compare by their instants (equal ones compare equal whatever
\* kind, interval and value are), a missing timestamp compares Less than a
\* present one (a present one Greater than a missing one), and two missing
\* timestamps compare Equal.
C6_MissingSortsFirst ==
    op = "partial_cmp"
        => LET a == pre.time.timestamp
               b == other.time.timestamp
           IN  /\ (a # None /\ a = b) => ret = "Equal"
               /\ (a # None /\ b # None /\ a < b) => ret = "Less"
               /\ (a # None /\ b # None /\ a > b) => ret = "Greater"
               /\ (a = None /\ b # None) => ret = "Less"
               /\ (a # None /\ b = None) => ret = "Greater"
               /\ (a = None /\ b = None) => ret = "Equal"

C6_Witness ==
    /\ op = "partial_cmp"
    /\ pre.time.timestamp = None
    /\ other.time.timestamp # None
    /\ pre.kind # other.kind
    /\ ret = "Less"

\* C7: update, add, subtract and zero, successful or not, leave kind as it
\* was; into_absolute and into_incremental set it to Absolute and to
\* Incremental and leave time and value as they were.
C7_KindOnlyRelabelled ==
    /\ op \in {"update", "add", "subtract", "zero"} => self.kind = pre.kind
    /\ op = "into_absolute"
         => self = [time |-> pre.time, kind |-> "Absolute", value |-> pre.value]
    /\ op = "into_incremental"
         => self = [time |-> pre.time, kind |-> "Incremental", value |-> pre.value]

C7_Witness ==
    /\ op = "add"
    /\ ret = "true"
    /\ pre.kind = "Absolute"
    /\ other.kind = "Incremental"
    /\ self.kind = "Absolute"
    /\ self.time # pre.time

\* C8: subtract and zero leave timestamp and interval_ms as they were,
\* whatever the other operand's time is; subtract returns what
\* value.subtract returns, whatever the two kinds are.
C8_SubtractZeroKeepTime ==
    /\ op = "subtract"
         => /\ self.time = pre.time
            /\ (ret = "true") = Compatible
            /\ ret \in {"true", "false"}
    /\ op = "zero" => self.time = pre.time

C8_Witness ==
    /\ op = "subtract"
    /\ ret = "true"
    /\ pre.kind = "Incremental"
    /\ other.kind = "Absolute"
    /\ BothWindows
    /\ other.time # pre.time
    /\ self.time = pre.time

\* C9: interval_ms is always absent or strictly positive; an update whose
\* window arithmetic comes to a length of zero stores None.
C9_IntervalNeverZero ==
    /\ self.time.interval_ms = None \/ self.time.interval_ms > 0
    /\ (/\ op \in {"update", "add"}
        /\ ret = "true"
        /\ BothWindows
        /\ GapLength % U32Mod = 0)
          => self.time.interval_ms = None

C9_Witness ==
    /\ op = "update"
    /\ ret = "true"
    /\ BothWindows
    /\ GapLength % U32Mod = 0
    /\ self.time.interval_ms = None

\* C10: the time a successful update stores does not depend on which of
\* the two time envelopes is the accumulator's and which the observation's.
C10_TimeSymmetric ==
    (op = "update" /\ ret = "true")
        => LET swapped == update([pre EXCEPT !.time = other.time],
                                 [other EXCEPT !.time = pre.time],
                                 overflow_checks)
           IN  /\ swapped.ret = "true"
               /\ swapped.self.time = self.time

=============================================================================
